---------------------------- MODULE Spec2Model ----------------------------
(***************************************************************************)
(* Model of src/app.js (NDSS 2026 personal agenda): the starred-set        *)
(* synchronizer (in-memory Set, localStorage slot, URL hash) and the       *)
(* interval conflict detector.                                             *)
(*                                                                         *)
(* Strings are sequences of UTF-16 code units (naturals); byte strings are *)
(* sequences of naturals below 256.  A JavaScript call that can throw is   *)
(* an operator returning a record [ok |-> BOOLEAN, val |-> ...].           *)
(***************************************************************************)
EXTENDS Integers, Sequences, FiniteSets, TLC

(***************************************************************************)
(* Bounds of the model.                                                    *)
(***************************************************************************)
NumIds == 3
MaxSessions == 3

(***************************************************************************)
(* Generic sequence helpers.                                               *)
(***************************************************************************)
Range(s) == {s[i] : i \in 1..Len(s)}

Contains(s, x) == \E i \in 1..Len(s) : s[i] = x

RECURSIVE Replace(_, _, _)
\* String.prototype.replace(/c/g, d) for a one-character pattern.
Replace(s, c, d) ==
  IF s = <<>> THEN <<>>
  ELSE <<IF Head(s) = c THEN d ELSE Head(s)>> \o Replace(Tail(s), c, d)

RECURSIVE StripTrailing(_, _)
\* String.prototype.replace(/c+$/, '').
StripTrailing(s, c) ==
  IF s # <<>> /\ s[Len(s)] = c THEN StripTrailing(SubSeq(s, 1, Len(s) - 1), c)
  ELSE s

RECURSIVE Without(_, _)
\* The sequence s with every element of the set cs removed.
Without(s, cs) ==
  IF s = <<>> THEN <<>>
  ELSE (IF Head(s) \in cs THEN <<>> ELSE <<Head(s)>>) \o Without(Tail(s), cs)

RECURSIVE IndexOf(_, _, _)
\* Least index i >= from with s[i] = c, or 0 when there is none.
IndexOf(s, c, from) ==
  IF from > Len(s) THEN 0
  ELSE IF s[from] = c THEN from
  ELSE IndexOf(s, c, from + 1)

RECURSIVE Split(_, _)
\* String.prototype.split(c) for a one-character separator.
Split(s, c) ==
  LET i == IndexOf(s, c, 1) IN
  IF i = 0 THEN <<s>>
  ELSE <<SubSeq(s, 1, i - 1)>> \o Split(SubSeq(s, i + 1, Len(s)), c)

RECURSIVE LessText(_, _)
\* a < b for strings: lexicographic by code unit, as Array.prototype.sort
\* compares strings by default.
LessText(a, b) ==
  IF b = <<>> THEN FALSE
  ELSE IF a = <<>> THEN TRUE
  ELSE IF Head(a) # Head(b) THEN Head(a) < Head(b)
  ELSE LessText(Tail(a), Tail(b))

RECURSIVE InsertSorted(_, _)
InsertSorted(sorted, x) ==
  IF sorted = <<>> THEN <<x>>
  ELSE IF LessText(x, Head(sorted)) THEN <<x>> \o sorted
  ELSE <<Head(sorted)>> \o InsertSorted(Tail(sorted), x)

RECURSIVE SortTexts(_)
\* [...ids].sort(): ascending, duplicates kept (a stable insertion from the
\* right keeps equal elements, which are indistinguishable, in place).
SortTexts(ids) ==
  IF ids = <<>> THEN <<>>
  ELSE InsertSorted(SortTexts(SubSeq(ids, 1, Len(ids) - 1)), ids[Len(ids)])

(***************************************************************************)
(* Platform conversions used by encodeStarred / decodeStarred.             *)
(***************************************************************************)
\* The base64 character of a 6-bit value.
B64Char(v) ==
  IF v < 26 THEN 65 + v
  ELSE IF v < 52 THEN 97 + (v - 26)
  ELSE IF v < 62 THEN 48 + (v - 52)
  ELSE IF v = 62 THEN 43
  ELSE 47

\* The 6-bit value of a base64 character, -1 for any other character.
B64Index(c) ==
  IF c >= 65 /\ c <= 90 THEN c - 65
  ELSE IF c >= 97 /\ c <= 122 THEN c - 97 + 26
  ELSE IF c >= 48 /\ c <= 57 THEN c - 48 + 52
  ELSE IF c = 43 THEN 62
  ELSE IF c = 47 THEN 63
  ELSE -1

RECURSIVE Btoa(_)
\* btoa on a byte string: standard base64 with '=' padding.
Btoa(b) ==
  IF Len(b) = 0 THEN <<>>
  ELSE IF Len(b) = 1 THEN
    <<B64Char(b[1] \div 4), B64Char((b[1] % 4) * 16), 61, 61>>
  ELSE IF Len(b) = 2 THEN
    <<B64Char(b[1] \div 4), B64Char((b[1] % 4) * 16 + (b[2] \div 16)),
      B64Char((b[2] % 16) * 4), 61>>
  ELSE
    <<B64Char(b[1] \div 4), B64Char((b[1] % 4) * 16 + (b[2] \div 16)),
      B64Char((b[2] % 16) * 4 + (b[3] \div 64)), B64Char(b[3] % 64)>>
    \o Btoa(SubSeq(b, 4, Len(b)))

RECURSIVE AtobGroups(_)
\* The bytes of a run of base64 characters (all valid, length % 4 # 1);
\* the bits left over in a final partial group are dropped.
AtobGroups(s) ==
  IF Len(s) < 2 THEN <<>>
  ELSE LET a == B64Index(s[1])
           b == B64Index(s[2])
       IN IF Len(s) = 2 THEN <<a * 4 + (b \div 16)>>
          ELSE LET c == B64Index(s[3]) IN
            IF Len(s) = 3 THEN <<a * 4 + (b \div 16), (b % 16) * 16 + (c \div 4)>>
            ELSE <<a * 4 + (b \div 16), (b % 16) * 16 + (c \div 4),
                   (c % 4) * 64 + B64Index(s[4])>>
                 \o AtobGroups(SubSeq(s, 5, Len(s)))

\* The bytes of base64 text u without whitespace and padding: throws on a
\* length of 1 mod 4 and on any character outside the alphabet.
AtobUnpadded(u) ==
  IF Len(u) % 4 = 1 \/ \E i \in 1..Len(u) : B64Index(u[i]) = -1
  THEN [ok |-> FALSE, val |-> <<>>]
  ELSE [ok |-> TRUE, val |-> AtobGroups(u)]

\* When the length is a multiple of 4, one or two trailing '=' are removed.
AtobStripPadding(t) ==
  IF Len(t) % 4 = 0 /\ Len(t) > 0 /\ t[Len(t)] = 61
  THEN IF t[Len(t) - 1] = 61 THEN SubSeq(t, 1, Len(t) - 2)
       ELSE SubSeq(t, 1, Len(t) - 1)
  ELSE t

\* atob (forgiving-base64 decode): ASCII whitespace is removed first.
Atob(s) == AtobUnpadded(AtobStripPadding(Without(s, {9, 10, 12, 13, 32})))

RECURSIVE Utf8Encode(_)
\* unescape(encodeURIComponent(s)): the UTF-8 bytes of s.  Covers code
\* units below 0xD800 (one to three bytes); surrogates are not among the
\* identifiers the model enumerates.
Utf8Encode(s) ==
  IF s = <<>> THEN <<>>
  ELSE LET c == Head(s) IN
    (IF c < 128 THEN <<c>>
     ELSE IF c < 2048 THEN <<192 + (c \div 64), 128 + (c % 64)>>
     ELSE <<224 + (c \div 4096), 128 + ((c \div 64) % 64), 128 + (c % 64)>>)
    \o Utf8Encode(Tail(s))

IsCont(b, i) == i <= Len(b) /\ b[i] >= 128 /\ b[i] <= 191

\* The length of the UTF-8 sequence a lead byte announces, 0 for a byte
\* that cannot lead.
Utf8SeqLen(c) ==
  IF c < 128 THEN 1
  ELSE IF c >= 194 /\ c <= 223 THEN 2
  ELSE IF c >= 224 /\ c <= 239 THEN 3
  ELSE IF c >= 240 /\ c <= 244 THEN 4
  ELSE 0

\* The code point of the n-byte sequence at the head of b.
Utf8CodePoint(b, n) ==
  IF n = 1 THEN b[1]
  ELSE IF n = 2 THEN (b[1] - 192) * 64 + (b[2] - 128)
  ELSE IF n = 3 THEN (b[1] - 224) * 4096 + (b[2] - 128) * 64 + (b[3] - 128)
  ELSE (b[1] - 240) * 262144 + (b[2] - 128) * 4096
       + (b[3] - 128) * 64 + (b[4] - 128)

\* Not overlong, not a surrogate, not beyond U+10FFFF.
Utf8ValidCodePoint(n, cp) ==
  /\ n = 3 => cp >= 2048 /\ ~(cp >= 55296 /\ cp <= 57343)
  /\ n = 4 => cp >= 65536 /\ cp <= 1114111

\* The UTF-16 code units of a code point.
Utf16Units(cp) ==
  IF cp < 65536 THEN <<cp>>
  ELSE <<55296 + ((cp - 65536) \div 1024), 56320 + ((cp - 65536) % 1024)>>

Utf8Prepend(units, rest) ==
  IF rest.ok THEN [ok |-> TRUE, val |-> units \o rest.val] ELSE rest

RECURSIVE Utf8Decode(_)

Utf8DecodeCodePoint(b, n, cp) ==
  IF ~Utf8ValidCodePoint(n, cp) THEN [ok |-> FALSE, val |-> <<>>]
  ELSE Utf8Prepend(Utf16Units(cp), Utf8Decode(SubSeq(b, n + 1, Len(b))))

Utf8DecodeSequence(b, n) ==
  IF n = 0 \/ \E i \in 2..n : ~IsCont(b, i) THEN [ok |-> FALSE, val |-> <<>>]
  ELSE Utf8DecodeCodePoint(b, n, Utf8CodePoint(b, n))

\* decodeURIComponent(escape(bytes)): the string whose UTF-8 encoding is
\* bytes; throws (URIError) on any ill-formed sequence.
Utf8Decode(b) ==
  IF b = <<>> THEN [ok |-> TRUE, val |-> <<>>]
  ELSE Utf8DecodeSequence(b, Utf8SeqLen(b[1]))

(***************************************************************************)
(* JSON.stringify / JSON.parse over the values the program stores: arrays  *)
(* of strings.  The parser also accepts the other JSON values a payload    *)
(* can be (a string, a number, a literal, the empty object) and rejects    *)
(* text that is not JSON.  Whitespace, escapes other than \" \\ \/ and     *)
(* arrays with elements that are not strings are outside the payloads the  *)
(* model enumerates.                                                       *)
(***************************************************************************)
RECURSIVE QuoteChars(_)
QuoteChars(s) ==
  IF s = <<>> THEN <<>>
  ELSE (IF Head(s) \in {34, 92} THEN <<92, Head(s)>> ELSE <<Head(s)>>)
       \o QuoteChars(Tail(s))

RECURSIVE JoinQuoted(_)
JoinQuoted(arr) ==
  IF arr = <<>> THEN <<>>
  ELSE <<34>> \o QuoteChars(Head(arr)) \o <<34>>
       \o (IF Len(arr) > 1 THEN <<44>> ELSE <<>>) \o JoinQuoted(Tail(arr))

\* JSON.stringify of an array of strings.
JSONStringify(arr) == <<91>> \o JoinQuoted(arr) \o <<93>>

RECURSIVE ScanString(_, _, _)
\* The string literal whose opening quote precedes position i.
ScanString(t, i, acc) ==
  IF i > Len(t) THEN [ok |-> FALSE, val |-> <<>>, next |-> i]
  ELSE IF t[i] = 34 THEN [ok |-> TRUE, val |-> acc, next |-> i + 1]
  ELSE IF t[i] = 92 THEN
    IF i + 1 <= Len(t) /\ t[i + 1] \in {34, 92, 47}
    THEN ScanString(t, i + 2, Append(acc, t[i + 1]))
    ELSE [ok |-> FALSE, val |-> <<>>, next |-> i]
  ELSE IF t[i] < 32 THEN [ok |-> FALSE, val |-> <<>>, next |-> i]
  ELSE ScanString(t, i + 1, Append(acc, t[i]))

RECURSIVE ScanElements(_, _, _)

\* After the element str of an array: a closing bracket, which must end the
\* text, or a comma and the next element.
ScanAfterElement(t, str, acc) ==
  IF ~str.ok \/ str.next > Len(t) THEN [ok |-> FALSE, val |-> <<>>]
  ELSE IF t[str.next] = 93 THEN
    [ok |-> str.next = Len(t),
     val |-> IF str.next = Len(t) THEN Append(acc, str.val) ELSE <<>>]
  ELSE IF t[str.next] = 44 THEN ScanElements(t, str.next + 1, Append(acc, str.val))
  ELSE [ok |-> FALSE, val |-> <<>>]

\* The elements of an array from position i on.
ScanElements(t, i, acc) ==
  IF i > Len(t) \/ t[i] # 34 THEN [ok |-> FALSE, val |-> <<>>]
  ELSE ScanAfterElement(t, ScanString(t, i + 1, <<>>), acc)

IsDigit(c) == c >= 48 /\ c <= 57

JSONArray(els) == [ok |-> els.ok, isArray |-> els.ok, val |-> els.val]

JSONStringValue(t, str) ==
  [ok |-> str.ok /\ str.next = Len(t) + 1, isArray |-> FALSE, val |-> <<>>]

\* JSON.parse: ok is FALSE when it throws (SyntaxError); isArray tells
\* whether the value is an array, whose elements are then val.
JSONParse(t) ==
  IF t = <<>> THEN [ok |-> FALSE, isArray |-> FALSE, val |-> <<>>]
  ELSE IF t = <<91, 93>> THEN [ok |-> TRUE, isArray |-> TRUE, val |-> <<>>]
  ELSE IF t[1] = 91 THEN JSONArray(ScanElements(t, 2, <<>>))
  ELSE IF t[1] = 34 THEN JSONStringValue(t, ScanString(t, 2, <<>>))
  ELSE [ok |-> \/ t = <<123, 125>>
               \/ t \in {<<110, 117, 108, 108>>, <<116, 114, 117, 101>>,
                         <<102, 97, 108, 115, 101>>}
               \/ /\ \A i \in 1..Len(t) : IsDigit(t[i])
                  /\ Len(t) = 1 \/ t[1] # 48,
        isArray |-> FALSE, val |-> <<>>]

\* try { ... return Array.isArray(arr) ? arr : [] } catch { return [] },
\* where parsed is what JSON.parse did.
ArrayOrEmpty(parsed) == IF parsed.ok /\ parsed.isArray THEN parsed.val ELSE <<>>

(***************************************************************************)
(* Encoding helpers (src/app.js 26-55).                                    *)
(***************************************************************************)
\* The base64url form of base64 text: '+' and '/' replaced, padding dropped.
ToBase64Url(b64) == StripTrailing(Replace(Replace(b64, 43, 45), 47, 95), 61)

\* encodeStarred(ids): JSON of the sorted ids -> UTF-8 -> base64 -> base64url.
encodeStarred(ids) ==
  IF Len(ids) = 0 THEN <<>>
  ELSE ToBase64Url(Btoa(Utf8Encode(JSONStringify(SortTexts(ids)))))

\* decodeURIComponent(escape(bytes)) when atob returned.
DecodeBytes(bytes) == IF bytes.ok THEN Utf8Decode(bytes.val) ELSE bytes

\* JSON.parse(json) when the calls before it returned.
ParseDecoded(json) ==
  IF json.ok THEN JSONParse(json.val)
  ELSE [ok |-> FALSE, isArray |-> FALSE, val |-> <<>>]

\* What the try block of decodeStarred does up to JSON.parse: ok is FALSE
\* when one of atob, decodeURIComponent, JSON.parse throws.
decodeStarredTry(encoded) ==
  ParseDecoded(DecodeBytes(Atob(Replace(Replace(encoded, 45, 43), 95, 47))))

\* decodeStarred(encoded): [] for an empty argument and on any error.
decodeStarred(encoded) ==
  IF encoded = <<>> THEN <<>>
  ELSE ArrayOrEmpty(decodeStarredTry(encoded))

(***************************************************************************)
(* URL hash (src/app.js 57-76).  The fragment is window.location.hash      *)
(* without its '#'; the empty fragment is the bare URL.                    *)
(***************************************************************************)
\* The name of a name=value piece.
ParamName(p, eq) == IF eq = 0 THEN p ELSE SubSeq(p, 1, eq - 1)

\* The value of a name=value piece.
ParamValue(p, eq) == IF eq = 0 THEN <<>> ELSE SubSeq(p, eq + 1, Len(p))

RECURSIVE FirstParam(_, _)

FirstParamFrom(p, rest, name) ==
  IF p # <<>> /\ ParamName(p, IndexOf(p, 61, 1)) = name
  THEN [isNull |-> FALSE, val |-> ParamValue(p, IndexOf(p, 61, 1))]
  ELSE FirstParam(rest, name)

\* URLSearchParams.get over the '&'-separated pieces: the value of the first
\* pair named name, with '+' read as a space; isNull when there is none.
\* Percent-escapes are not among the fragments the model enumerates.
FirstParam(pieces, name) ==
  IF pieces = <<>> THEN [isNull |-> TRUE, val |-> <<>>]
  ELSE FirstParamFrom(Replace(Head(pieces), 43, 32), Tail(pieces), name)

\* new URLSearchParams(hash).get(name): a leading '?' is dropped.
URLSearchParamsGet(hash, name) ==
  FirstParam(Split(IF hash # <<>> /\ hash[1] = 63 THEN Tail(hash) ELSE hash, 38),
             name)

\* HASH_PARAM = 'a'.
HASH_PARAM == <<97>>

\* readHashStarred() from params.get on: null (isNull) or the decoded array.
readHashParam(encoded) ==
  IF encoded.isNull \/ encoded.val = <<>> THEN [isNull |-> TRUE, val |-> <<>>]
  ELSE [isNull |-> FALSE, val |-> decodeStarred(encoded.val)]

\* readHashStarred().
readHashStarred(hash) ==
  IF hash = <<>> THEN [isNull |-> TRUE, val |-> <<>>]
  ELSE readHashParam(URLSearchParamsGet(hash, HASH_PARAM))

\* writeHash(ids): the fragment after history.replaceState.
writeHash(ids) ==
  IF Len(ids) = 0 THEN <<>>
  ELSE HASH_PARAM \o <<61>> \o encodeStarred(ids)

(***************************************************************************)
(* localStorage (src/app.js 78-97).  The slot is absent (hasItem FALSE)    *)
(* or holds a string.                                                      *)
(***************************************************************************)
NoItem == [hasItem |-> FALSE, raw |-> <<>>]

\* Mutant of loadStarredFromLS: no try / catch around getItem and JSON.parse.
loadStarredFromLS_NoCatch(curSlot, getThrows) ==
  IF getThrows THEN [val |-> <<>>, thrown |-> TRUE]
  ELSE IF ~curSlot.hasItem \/ curSlot.raw = <<>> THEN [val |-> <<>>, thrown |-> FALSE]
  ELSE [val |-> ArrayOrEmpty(JSONParse(curSlot.raw)),
        thrown |-> ~JSONParse(curSlot.raw).ok]

\* loadStarredFromLS(): the array returned and whether an exception leaves
\* the function; getThrows tells whether localStorage.getItem throws.
loadStarredFromLS(curSlot, getThrows) ==
  IF getThrows THEN [val |-> <<>>, thrown |-> FALSE]
  ELSE IF ~curSlot.hasItem \/ curSlot.raw = <<>> THEN [val |-> <<>>, thrown |-> FALSE]
  ELSE [val |-> ArrayOrEmpty(JSONParse(curSlot.raw)), thrown |-> FALSE]

\* Mutant of saveStarredToLS: no try / catch around setItem.
saveStarredToLS_NoCatch(curSlot, ids, setThrows) ==
  IF setThrows THEN [slot |-> curSlot, thrown |-> TRUE]
  ELSE [slot |-> [hasItem |-> TRUE, raw |-> JSONStringify(ids)], thrown |-> FALSE]

\* saveStarredToLS(ids): the slot afterwards and whether an exception leaves
\* the function; setThrows tells whether localStorage.setItem throws.
saveStarredToLS(curSlot, ids, setThrows) ==
  IF setThrows THEN [slot |-> curSlot, thrown |-> FALSE]
  ELSE [slot |-> [hasItem |-> TRUE, raw |-> JSONStringify(ids)], thrown |-> FALSE]


(***************************************************************************)
(* The starred Set (src/app.js 24): a JavaScript Set iterates in insertion *)
(* order, so it is a sequence without repetitions.                         *)
(***************************************************************************)
\* Set.prototype.add.
SetAdd(set, x) == IF Contains(set, x) THEN set ELSE Append(set, x)

\* Set.prototype.delete.
SetDelete(set, x) == SelectSeq(set, LAMBDA y : y # x)

RECURSIVE SetAddAll(_, _)
SetAddAll(set, arr) ==
  IF arr = <<>> THEN set ELSE SetAddAll(SetAdd(set, Head(arr)), Tail(arr))

\* new Set(array).
NewSet(arr) == SetAddAll(<<>>, arr)

(***************************************************************************)
(* Inputs.  The program's session identifiers, and the URL fragments and   *)
(* localStorage contents the page can be opened with, each labelled with   *)
(* what it is and the list of identifiers it stands for.                   *)
(***************************************************************************)
\* "s2", "é~", "s?", "s1"
IdPool == <<<<115, 50>>, <<233, 126>>, <<115, 63>>, <<115, 49>>>>

Ids == {IdPool[i] : i \in 1..NumIds}

FragmentInputs ==
  { [kind |-> "absent", ids |-> <<>>, text |-> <<>>],
    \* b=1
    [kind |-> "absent", ids |-> <<>>, text |-> <<98, 61, 49>>],
    \* a=
    [kind |-> "empty", ids |-> <<>>, text |-> <<97, 61>>],
    \* a=WyJzMiIsInM_Il0            ["s2","s?"]
    [kind |-> "list", ids |-> <<<<115, 50>>, <<115, 63>>>>,
     text |-> <<97, 61, 87, 121, 74, 122, 77, 105, 73, 115,
                73, 110, 77, 95, 73, 108, 48>>],
    \* a=WyJzMiIsIsOpfiIsInMyIl0    ["s2","é~","s2"]
    [kind |-> "list", ids |-> <<<<115, 50>>, <<233, 126>>, <<115, 50>>>>,
     text |-> <<97, 61, 87, 121, 74, 122, 77, 105, 73, 115,
                73, 115, 79, 112, 102, 105, 73, 115, 73, 110,
                77, 121, 73, 108, 48>>],
    \* a=W10                        []
    [kind |-> "emptylist", ids |-> <<>>, text |-> <<97, 61, 87, 49, 48>>],
    \* a=!!!                        not base64
    [kind |-> "badbase64", ids |-> <<>>, text |-> <<97, 61, 33, 33, 33>>],
    \* a=_w                         the byte 0xFF: not UTF-8
    [kind |-> "badutf8", ids |-> <<>>, text |-> <<97, 61, 95, 119>>],
    \* a=WyJzMSI                    ["s1"   : not JSON
    [kind |-> "badjson", ids |-> <<>>, text |-> <<97, 61, 87, 121, 74, 122, 77, 83, 73>>],
    \* a=e30                        {}      : not an array
    [kind |-> "nonarray", ids |-> <<>>, text |-> <<97, 61, 101, 51, 48>>] }

SlotInputs ==
  { [kind |-> "absent", ids |-> <<>>, slot |-> NoItem],
    [kind |-> "empty", ids |-> <<>>, slot |-> [hasItem |-> TRUE, raw |-> <<>>]],
    \* ["s?"]
    [kind |-> "list", ids |-> <<<<115, 63>>>>,
     slot |-> [hasItem |-> TRUE, raw |-> <<91, 34, 115, 63, 34, 93>>]],
    \* ["é~","s2"]
    [kind |-> "list", ids |-> <<<<233, 126>>, <<115, 50>>>>,
     slot |-> [hasItem |-> TRUE,
               raw |-> <<91, 34, 233, 126, 34, 44, 34, 115, 50, 34, 93>>]],
    \* []
    [kind |-> "emptylist", ids |-> <<>>, slot |-> [hasItem |-> TRUE, raw |-> <<91, 93>>]],
    \* ["s2"
    [kind |-> "badjson", ids |-> <<>>, slot |-> [hasItem |-> TRUE, raw |-> <<91, 34, 115, 50, 34>>]],
    \* {}
    [kind |-> "nonarray", ids |-> <<>>, slot |-> [hasItem |-> TRUE, raw |-> <<123, 125>>]] }

(***************************************************************************)
(* State.                                                                  *)
(***************************************************************************)
VARIABLES
  pc,        \* "boot": init has not run; "ready": init wired the controls;
             \* "failed": init returned after the fetch failed;
             \* "aborted": an exception left init
  starred,   \* the starred Set
  slot,      \* the localStorage slot LS_KEY
  fragment,  \* window.location.hash without '#'
  uncaught,  \* an exception has left a handler
  last,      \* the last handler that ran, its argument, whether getItem /
             \* setItem threw in it, and (until a mutation) what the page
             \* was opened with: the kind of link and of stored value and
             \* the identifier lists they stand for
  before,    \* the members of starred before the last handler ran
  sessions,  \* the argument of findConflicts
  conflicts  \* its result, once called

vars == <<pc, starred, slot, fragment, uncaught, last, before, sessions, conflicts>>

syncVars == <<pc, starred, slot, fragment, uncaught, last, before>>

NotCalled == [called |-> FALSE, ids |-> {}]

(***************************************************************************)
(* Star management (src/app.js 285-298).                                   *)
(***************************************************************************)
\* Mutant of toggleStar: the identifier is added, never removed.
toggleStar_AddOnly(set, sessionId) == SetAdd(set, sessionId)

\* The Set after toggleStar's if/else.
toggleStar(set, sessionId) ==
  IF Contains(set, sessionId) THEN SetDelete(set, sessionId)
  ELSE SetAdd(set, sessionId)

\* Mutant of persistSaved: writeHash is not called.
persistSaved_NoWriteHash(saved, ids, curFragment) ==
  [slot |-> saved.slot, fragment |-> curFragment, thrown |-> saved.thrown]

\* persist() after saveStarredToLS: writeHash, unless an exception left
\* saveStarredToLS.
persistSaved(saved, ids, curFragment) ==
  IF saved.thrown
  THEN [slot |-> saved.slot, fragment |-> curFragment, thrown |-> TRUE]
  ELSE [slot |-> saved.slot, fragment |-> writeHash(ids), thrown |-> FALSE]

\* persist(): ids = [...starred]; saveStarredToLS(ids); writeHash(ids).
persist(set, curSlot, curFragment, setThrows) ==
  persistSaved(saveStarredToLS(curSlot, set, setThrows), set, curFragment)

\* What last records of a mutation handler; repeat tells that it toggled
\* the identifier the handler before it toggled.
Mutation(op, id, setThrew) ==
  [op |-> op, id |-> id, repeat |-> op = "toggle" /\ last.op = "toggle" /\ last.id = id,
   getThrew |-> FALSE, setThrew |-> setThrew,
   link |-> "-", linkIds |-> <<>>, store |-> "-", storeIds |-> <<>>]

\* The state after a mutation handler set the Set and called persist().
Mutated(set, p, op, id, setThrows) ==
  /\ starred' = set
  /\ slot' = p.slot
  /\ fragment' = p.fragment
  /\ uncaught' = (uncaught \/ p.thrown)
  /\ last' = Mutation(op, id, setThrows)
  /\ before' = Range(starred)
  /\ UNCHANGED <<pc, sessions, conflicts>>

\* The star button's click handler (src/app.js 265-267): toggleStar.
Toggle(sessionId) ==
  /\ pc = "ready"
  /\ \E setThrows \in BOOLEAN :
       Mutated(toggleStar(starred, sessionId),
               persist(toggleStar(starred, sessionId), slot, fragment, setThrows),
               "toggle", sessionId, setThrows)

\* resetAgenda (src/app.js 510-517), once the user confirms.
Clear ==
  /\ pc = "ready"
  /\ \E setThrows \in BOOLEAN :
       Mutated(<<>>, persist(<<>>, slot, fragment, setThrows),
               "clear", <<>>, setThrows)

(***************************************************************************)
(* Initialisation (src/app.js 400-462).                                    *)
(***************************************************************************)
\* Mutant of hashWins: the length is not checked.
hashWins_NoLengthCheck(fromHash) == ~fromHash.isNull

\* Whether the hash wins: fromHash !== null && fromHash.length > 0.
hashWins(fromHash) == ~fromHash.isNull /\ Len(fromHash.val) > 0

\* The if branch of step 2, after saveStarredToLS(fromHash).
reconciledFromHash(fromHash, saved) ==
  [starred |-> NewSet(fromHash), slot |-> saved.slot, thrown |-> saved.thrown]

\* The else branch of step 2, after loadStarredFromLS().
reconciledFromLS(loaded, curSlot) ==
  [starred |-> IF loaded.thrown THEN <<>> ELSE NewSet(loaded.val),
   slot |-> curSlot, thrown |-> loaded.thrown]

\* Mutant of reconcileWith: a non-empty stored list is preferred to the hash.
reconcileWith_StorageFirst(fromHash, curSlot, getThrows, setThrows) ==
  IF hashWins(fromHash) /\ loadStarredFromLS(curSlot, getThrows).val = <<>>
  THEN reconciledFromHash(fromHash.val,
                          saveStarredToLS(curSlot, fromHash.val, setThrows))
  ELSE reconciledFromLS(loadStarredFromLS(curSlot, getThrows), curSlot)

\* Step 2 of init, given fromHash: the Set and the slot after it, and
\* whether an exception leaves it.
reconcileWith(fromHash, curSlot, getThrows, setThrows) ==
  IF hashWins(fromHash)
  THEN reconciledFromHash(fromHash.val,
                          saveStarredToLS(curSlot, fromHash.val, setThrows))
  ELSE reconciledFromLS(loadStarredFromLS(curSlot, getThrows), curSlot)

\* Step 2 of init.
reconcile(curSlot, curFragment, getThrows, setThrows) ==
  reconcileWith(readHashStarred(curFragment), curSlot, getThrows, setThrows)

\* The state after init ran step 2 with result r; an exception leaving it
\* would end init before the controls are wired.
Reconciled(r, getThrows, setThrows) ==
  /\ starred' = r.starred
  /\ slot' = r.slot
  /\ uncaught' = r.thrown
  /\ pc' = IF r.thrown THEN "aborted" ELSE "ready"
  /\ last' = [last EXCEPT !.op = "init", !.getThrew = getThrows,
                          !.setThrew = setThrows]
  /\ before' = Range(starred)
  /\ UNCHANGED <<fragment, sessions, conflicts>>

\* init() when the program document loads: reconciliation, then the
\* controls are wired and the views rendered.  getThrows / setThrows tell
\* whether the localStorage call of the branch taken throws.
InitLoaded ==
  /\ pc = "boot"
  /\ \E getThrows \in BOOLEAN, setThrows \in BOOLEAN :
       /\ getThrows => ~hashWins(readHashStarred(fragment))
       /\ setThrows => hashWins(readHashStarred(fragment))
       /\ Reconciled(reconcile(slot, fragment, getThrows, setThrows),
                     getThrows, setThrows)

\* Mutant of InitLoadFailed: the catch block does not return, so step 2
\* runs before init fails on the missing program document.
InitLoadFailed_NoReturn ==
  /\ pc = "boot"
  /\ pc' = "failed"
  /\ starred' = reconcile(slot, fragment, FALSE, FALSE).starred
  /\ slot' = reconcile(slot, fragment, FALSE, FALSE).slot
  /\ last' = [last EXCEPT !.op = "loadfailed"]
  /\ before' = Range(starred)
  /\ UNCHANGED <<fragment, uncaught, sessions, conflicts>>

\* init() when fetch rejects, the status is not OK or the body does not
\* parse: the catch block reports it and returns.
InitLoadFailed ==
  /\ pc = "boot"
  /\ pc' = "failed"
  /\ last' = [last EXCEPT !.op = "loadfailed"]
  /\ before' = Range(starred)
  /\ UNCHANGED <<starred, slot, fragment, uncaught, sessions, conflicts>>

Init ==
  /\ pc = "boot"
  /\ starred = <<>>
  /\ uncaught = FALSE
  /\ before = {}
  /\ \E f \in FragmentInputs, l \in SlotInputs :
       /\ fragment = f.text
       /\ slot = l.slot
       /\ last = [op |-> "boot", id |-> <<>>, repeat |-> FALSE,
                  getThrew |-> FALSE, setThrew |-> FALSE,
                  link |-> f.kind, linkIds |-> f.ids,
                  store |-> l.kind, storeIds |-> l.ids]
  /\ sessions = <<>>
  /\ conflicts = NotCalled

Next ==
  \/ InitLoaded
  \/ InitLoadFailed
  \/ \E sessionId \in Ids : Toggle(sessionId)
  \/ Clear

Spec == Init /\ [][Next]_vars


(***************************************************************************)
(* Time helpers and conflict detection (src/app.js 99-132).  A session's   *)
(* start / end is a string or is missing (defined FALSE).                  *)
(***************************************************************************)
RECURSIVE DigitsValue(_)
DigitsValue(s) ==
  IF s = <<>> THEN 0 ELSE DigitsValue(SubSeq(s, 1, Len(s) - 1)) * 10 + (s[Len(s)] - 48)

\* Number(str) for strings of digits and letters: the empty string is 0, a
\* run of digits its decimal value, anything else NaN.  Signs, whitespace,
\* fractions, exponents and radix prefixes are not among the time strings
\* the model enumerates.
Number(s) ==
  IF \A i \in 1..Len(s) : IsDigit(s[i]) THEN [isNaN |-> FALSE, val |-> DigitsValue(s)]
  ELSE [isNaN |-> TRUE, val |-> 0]

\* toMinutes after destructuring [h, m] from the mapped parts.
hoursAndMinutes(h, m) ==
  IF h.isNaN \/ m.isNaN THEN [isNull |-> TRUE, val |-> 0]
  ELSE [isNull |-> FALSE, val |-> h.val * 60 + m.val]

\* toMinutes after the guard: parts is timeStr.split(':'), of two or more
\* parts since timeStr includes ':'.
partsToMinutes(parts) == hoursAndMinutes(Number(parts[1]), Number(parts[2]))

\* toMinutes(timeStr): minutes since midnight, or null.
toMinutes(timeStr) ==
  IF ~timeStr.defined \/ timeStr.str = <<>> \/ ~Contains(timeStr.str, 58)
  THEN [isNull |-> TRUE, val |-> 0]
  ELSE partsToMinutes(Split(timeStr.str, 58))

\* Mutant of overlapsMinutes: closed intervals, so touching sessions overlap.
overlapsMinutes_Closed(aStart, aEnd, bStart, bEnd) ==
  IF aStart.isNull \/ aEnd.isNull \/ bStart.isNull \/ bEnd.isNull THEN FALSE
  ELSE IF aStart.val = aEnd.val \/ bStart.val = bEnd.val THEN FALSE
  ELSE aStart.val <= bEnd.val /\ bStart.val <= aEnd.val

\* overlaps after the four toMinutes calls.
overlapsMinutes(aStart, aEnd, bStart, bEnd) ==
  IF aStart.isNull \/ aEnd.isNull \/ bStart.isNull \/ bEnd.isNull THEN FALSE
  ELSE IF aStart.val = aEnd.val \/ bStart.val = bEnd.val THEN FALSE
  ELSE aStart.val < bEnd.val /\ bStart.val < aEnd.val

\* overlaps(a, b).
overlaps(a, b) ==
  overlapsMinutes(toMinutes(a.start), toMinutes(a.end),
                  toMinutes(b.start), toMinutes(b.end))

RECURSIVE findConflictsFrom(_, _, _, _)
\* The nested loops of findConflicts from the pair (i, j) on.
findConflictsFrom(list, i, j, conflicting) ==
  IF i > Len(list) THEN conflicting
  ELSE IF j > Len(list) THEN findConflictsFrom(list, i + 1, i + 2, conflicting)
  ELSE findConflictsFrom(list, i, j + 1,
         IF overlaps(list[i], list[j])
         THEN conflicting \cup {list[i].session_id, list[j].session_id}
         ELSE conflicting)

\* findConflicts(sessions).
findConflicts(list) == findConflictsFrom(list, 1, 2, {})

\* Session identifiers "A" .. "E", by position in the list.
SessionIdPool == <<<<65>>, <<66>>, <<67>>, <<68>>, <<69>>>>

\* The start and end times a session of the program can carry.
TimePairs ==
  {
    \* 09:00 - 10:00
    [start |-> [defined |-> TRUE, str |-> <<48, 57, 58, 48, 48>>],
     end |-> [defined |-> TRUE, str |-> <<49, 48, 58, 48, 48>>]],
    \* 9:30 - 10:30
    [start |-> [defined |-> TRUE, str |-> <<57, 58, 51, 48>>],
     end |-> [defined |-> TRUE, str |-> <<49, 48, 58, 51, 48>>]],
    \* 10:00 - 11:00
    [start |-> [defined |-> TRUE, str |-> <<49, 48, 58, 48, 48>>],
     end |-> [defined |-> TRUE, str |-> <<49, 49, 58, 48, 48>>]],
    \* 10:30 - 11:30
    [start |-> [defined |-> TRUE, str |-> <<49, 48, 58, 51, 48>>],
     end |-> [defined |-> TRUE, str |-> <<49, 49, 58, 51, 48>>]],
    \* 10:00 - 10:00
    [start |-> [defined |-> TRUE, str |-> <<49, 48, 58, 48, 48>>],
     end |-> [defined |-> TRUE, str |-> <<49, 48, 58, 48, 48>>]],
    \* 11:00 - 09:30
    [start |-> [defined |-> TRUE, str |-> <<49, 49, 58, 48, 48>>],
     end |-> [defined |-> TRUE, str |-> <<48, 57, 58, 51, 48>>]],
    \* (no start) - 10:00
    [start |-> [defined |-> FALSE, str |-> <<>>],
     end |-> [defined |-> TRUE, str |-> <<49, 48, 58, 48, 48>>]],
    \* 0930 - 10:30
    [start |-> [defined |-> TRUE, str |-> <<48, 57, 51, 48>>],
     end |-> [defined |-> TRUE, str |-> <<49, 48, 58, 51, 48>>]],
    \* x:30 - 10:00
    [start |-> [defined |-> TRUE, str |-> <<120, 58, 51, 48>>],
     end |-> [defined |-> TRUE, str |-> <<49, 48, 58, 48, 48>>]],
    \* 25:00 - 26:00
    [start |-> [defined |-> TRUE, str |-> <<50, 53, 58, 48, 48>>],
     end |-> [defined |-> TRUE, str |-> <<50, 54, 58, 48, 48>>]],
    \* :30 - 26:30
    [start |-> [defined |-> TRUE, str |-> <<58, 51, 48>>],
     end |-> [defined |-> TRUE, str |-> <<50, 54, 58, 51, 48>>]],
    \* 9:15:00 - 9:75
    [start |-> [defined |-> TRUE, str |-> <<57, 58, 49, 53, 58, 48, 48>>],
     end |-> [defined |-> TRUE, str |-> <<57, 58, 55, 53>>]] }

\* The lists of n distinct sessions.
SessionLists(n) ==
  { [k \in 1..n |-> [session_id |-> SessionIdPool[k],
                     start |-> f[k].start, end |-> f[k].end]]
    : f \in [1..n -> TimePairs] }

\* renderAgenda's call of findConflicts on a day's sessions.
CallFindConflicts ==
  /\ ~conflicts.called
  /\ conflicts' = [called |-> TRUE, ids |-> findConflicts(sessions)]
  /\ UNCHANGED <<syncVars, sessions>>

InitConflicts ==
  /\ pc = "ready"
  /\ starred = <<>>
  /\ slot = NoItem
  /\ fragment = <<>>
  /\ uncaught = FALSE
  /\ before = {}
  /\ last = [op |-> "init", id |-> <<>>, repeat |-> FALSE,
             getThrew |-> FALSE, setThrew |-> FALSE,
             link |-> "absent", linkIds |-> <<>>,
             store |-> "absent", storeIds |-> <<>>]
  /\ \E n \in 0..MaxSessions : sessions \in SessionLists(n)
  /\ conflicts = NotCalled

NextConflicts == CallFindConflicts

SpecConflicts == InitConflicts /\ [][NextConflicts]_vars


(***************************************************************************)
(* Properties.                                                             *)
(***************************************************************************)
\* The identifiers a slot decodes to.
StoredIds(slt) == Range(loadStarredFromLS(slt, FALSE).val)

\* The identifiers the link in a fragment decodes to.
LinkIds(frag) == Range(readHashStarred(frag).val)

\* The link encodes exactly the Set, and is absent when the Set is empty.
LinkConsistent(frag, set) ==
  /\ LinkIds(frag) = Range(set)
  /\ set = <<>> => frag = <<>>

IsMutation(op) == op \in {"toggle", "clear"}

\* The step is init running reconciliation.
InitStep == pc = "boot" /\ last'.op = "init"

\* The link kinds that do not decode to a non-empty list.
NoListKinds == {"absent", "empty", "emptylist", "badbase64", "badutf8",
                "badjson", "nonarray"}

\* C1 as stated: when init reconciles with a link that decodes to a
\* non-empty list L, the starred set becomes the identifiers of L and the
\* slot is overwritten with L, whatever it held.
C1_LinkWinsOverwrites ==
  [][InitStep /\ last.link = "list"
       => /\ Range(starred') = Range(last.linkIds)
          /\ slot'.hasItem
          /\ loadStarredFromLS(slot', FALSE).val = last.linkIds]_vars

\* C1 amended: when init reconciles with a link that decodes to a non-empty
\* list L, the starred set becomes the identifiers of L; the slot is
\* overwritten with L when the write succeeds, and keeps its prior value
\* when the write throws.
C1_LinkWins ==
  [][InitStep /\ last.link = "list"
       => /\ Range(starred') = Range(last.linkIds)
          /\ IF last'.setThrew THEN slot' = slot
             ELSE slot'.hasItem /\ loadStarredFromLS(slot', FALSE).val = last.linkIds]_vars

\* C1 witness: init has run with a link list over a different stored list,
\* and the Set and the slot hold the link's list.
C1_Witness ==
  /\ last.op = "init" /\ last.link = "list" /\ last.store = "list"
  /\ ~last.setThrew
  /\ Range(last.storeIds) # Range(last.linkIds)
  /\ Range(starred) = Range(last.linkIds)
  /\ loadStarredFromLS(slot, FALSE).val = last.linkIds

\* C2: when the link is absent, empty, undecodable or decodes to an empty
\* list, init makes the starred set what the slot decodes to (nothing, when
\* the store cannot be read) and writes neither the slot nor the link.
C2_LinkNeverWipes ==
  [][InitStep /\ last.link \in NoListKinds
       => /\ Range(starred') =
               (IF last'.getThrew THEN {} ELSE Range(last.storeIds))
          /\ slot' = slot
          /\ fragment' = fragment]_vars

\* C2 witness: init has run with a link that decodes to an empty list over
\* a stored list, and the Set holds the stored list.
C2_Witness ==
  /\ last.op = "init" /\ last.link = "emptylist" /\ last.store = "list"
  /\ ~last.getThrew
  /\ starred # <<>>
  /\ Range(starred) = Range(last.storeIds)
  /\ StoredIds(slot) = Range(starred)

\* C3 as stated: after every toggle or clear the slot and the link both
\* decode to exactly the starred set.
C3_ConsistentPair ==
  IsMutation(last.op)
    => StoredIds(slot) = Range(starred) /\ LinkConsistent(fragment, starred)

\* C3 amended: after every toggle or clear the link decodes to exactly the
\* starred set (and is absent when it is empty), and the slot does too
\* unless the slot write threw.
C3_ConsistentUnlessWriteThrew ==
  IsMutation(last.op)
    => /\ LinkConsistent(fragment, starred)
       /\ ~last.setThrew => slot.hasItem /\ StoredIds(slot) = Range(starred)

\* C3 witness: a toggle left a Set of all the identifiers, with the slot
\* and the link both holding it.
C3_Witness ==
  /\ last.op = "toggle" /\ ~last.setThrew
  /\ Range(starred) = Ids
  /\ StoredIds(slot) = Ids
  /\ LinkIds(fragment) = Ids

\* C4 as stated: every value written to the slot is the sorted,
\* duplicate-free list of the starred set's identifiers.
C4_SortedStorage ==
  (/\ ~last.setThrew
   /\ IsMutation(last.op) \/ (last.op = "init" /\ last.link = "list"))
    => slot = [hasItem |-> TRUE, raw |-> JSONStringify(SortTexts(starred))]

\* C7: when the slot write throws in a toggle, a clear or the link-wins
\* reconciliation, no exception leaves the handler, the starred set takes
\* its new value, the link holds that value, and the slot is unchanged.
C7_WriteFailureSwallowed ==
  [][last'.setThrew
       => /\ ~uncaught'
          /\ pc' = "ready"
          /\ slot' = slot
          /\ LinkIds(fragment') = Range(starred')
          /\ last'.op = "toggle" =>
               /\ Range(starred') =
                    (IF last'.id \in Range(starred)
                     THEN Range(starred) \ {last'.id}
                     ELSE Range(starred) \cup {last'.id})
               /\ LinkConsistent(fragment', starred')
          /\ last'.op = "clear" => starred' = <<>> /\ fragment' = <<>>
          /\ last'.op = "init" => Range(starred') = Range(last.linkIds)]_vars

\* C7 witness: a toggle whose slot write threw left a non-empty Set that
\* the link holds and the slot does not.
C7_Witness ==
  /\ last.op = "toggle" /\ last.setThrew
  /\ starred # <<>>
  /\ LinkIds(fragment) = Range(starred)
  /\ StoredIds(slot) # Range(starred)

\* C8: toggle(x) right after toggle(x) restores the starred set, no other
\* identifier's membership changes in either call, and when the set is
\* empty again the URL has no fragment.
C8_ToggleTwice ==
  [][last'.repeat
       => /\ Range(starred') = before
          /\ Range(starred) \ {last'.id} = before \ {last'.id}
          /\ Range(starred') \ {last'.id} = Range(starred) \ {last'.id}
          /\ (last'.id \in Range(starred)) # (last'.id \in before)
          /\ before = {} => fragment' = <<>>]_vars

\* C8 witness: the second of two toggles of one identifier emptied the Set
\* and cleared the fragment.
C8_Witness ==
  /\ last.repeat
  /\ before = {last.id}
  /\ starred = <<>>
  /\ fragment = <<>>

\* C9: with a stored payload that cannot be read, is not JSON or is not an
\* array, and no non-empty link, init ends normally with an empty starred
\* set; a link payload that is not base64, UTF-8, JSON or an array decodes
\* to the empty list.
C9_DefensiveDecoding ==
  [][InitStep
       => /\ (last.link \in NoListKinds
              /\ (last'.getThrew \/ last.store \in {"badjson", "nonarray"}))
             => starred' = <<>> /\ ~uncaught' /\ pc' = "ready"
          /\ last.link \in {"badbase64", "badutf8", "badjson", "nonarray"}
             => /\ readHashStarred(fragment) = [isNull |-> FALSE, val |-> <<>>]
                /\ ~uncaught' /\ pc' = "ready"]_vars

\* C9 witness: init has run on a stored payload that is not JSON and a link
\* payload that is not UTF-8, and the Set is empty.
C9_Witness ==
  /\ last.op = "init" /\ pc = "ready"
  /\ last.store = "badjson" /\ last.link = "badutf8"
  /\ starred = <<>>
  /\ ~uncaught

\* C10: when the fetch fails init returns before reconciliation: the Set
\* stays empty, the slot and the URL keep their values even with a
\* non-empty link, and no handler changes anything afterwards.
C10_LoadFailureSkipsReconciliation ==
  [][/\ pc # "failed"
     /\ pc' = "failed" => /\ pc = "boot"
                          /\ starred' = <<>>
                          /\ slot' = slot
                          /\ fragment' = fragment
                          /\ ~uncaught']_vars

\* C10 witness: init returned on a failed fetch with a link list and a
\* different stored list, and the Set is empty and the slot as stored.
C10_Witness ==
  /\ pc = "failed"
  /\ last.link = "list" /\ last.store = "list"
  /\ starred = <<>>
  /\ loadStarredFromLS(slot, FALSE).val = last.storeIds
  /\ LinkIds(fragment) = Range(last.linkIds)

(***************************************************************************)
(* Properties of the conflict detector.                                    *)
(***************************************************************************)
\* "H:MM" or "HH:MM" with the hour at most 23 and the minute at most 59.
ValidTimeString(t) ==
  /\ t.defined
  /\ Len(t.str) \in {4, 5}
  /\ t.str[Len(t.str) - 2] = 58
  /\ \A i \in 1..Len(t.str) : i # Len(t.str) - 2 => IsDigit(t.str[i])
  /\ DigitsValue(SubSeq(t.str, 1, Len(t.str) - 3)) <= 23
  /\ DigitsValue(SubSeq(t.str, Len(t.str) - 1, Len(t.str))) <= 59

\* Minutes since midnight of a valid time string.
ClockMinutes(t) ==
  DigitsValue(SubSeq(t.str, 1, Len(t.str) - 3)) * 60
  + DigitsValue(SubSeq(t.str, Len(t.str) - 1, Len(t.str)))

ValidTimes(session) == ValidTimeString(session.start) /\ ValidTimeString(session.end)

\* Two sessions with valid times conflict: both non-degenerate, and the
\* half-open intervals intersect.
InConflict(a, b) ==
  /\ ClockMinutes(a.start) # ClockMinutes(a.end)
  /\ ClockMinutes(b.start) # ClockMinutes(b.end)
  /\ ClockMinutes(a.start) < ClockMinutes(b.end)
  /\ ClockMinutes(b.start) < ClockMinutes(a.end)

\* The orders a list of n sessions can be given in.
Orders(n) == {p \in [1..n -> 1..n] : \A i, j \in 1..n : i # j => p[i] # p[j]}

\* C5: for a list of distinct sessions with valid times, findConflicts
\* returns exactly the sessions that conflict with another session of the
\* list, and returns the same set for every order of the list.
C5_ConflictsExact ==
  (conflicts.called /\ \A i \in 1..Len(sessions) : ValidTimes(sessions[i]))
    => /\ conflicts.ids =
            {sessions[i].session_id :
               i \in {k \in 1..Len(sessions) :
                        \E j \in 1..Len(sessions) :
                          j # k /\ InConflict(sessions[k], sessions[j])}}
       /\ \A p \in Orders(Len(sessions)) :
            findConflicts([k \in 1..Len(sessions) |-> sessions[p[k]]]) = conflicts.ids

\* C5 witness: of three sessions with valid times, findConflicts reported
\* two and left out one that only touches another.
C5_Witness ==
  /\ conflicts.called
  /\ Len(sessions) = 3
  /\ \A i \in 1..3 : ValidTimes(sessions[i])
  /\ Cardinality(conflicts.ids) = 2
  /\ \E i, j \in 1..3 :
       /\ sessions[i].session_id \notin conflicts.ids
       /\ ClockMinutes(sessions[i].start) # ClockMinutes(sessions[i].end)
       /\ ClockMinutes(sessions[i].start) = ClockMinutes(sessions[j].end)

\* C6 as stated: a session whose start or end is missing or is not a valid
\* "H:MM" / "HH:MM" 24-hour string is never in findConflicts' result.
C6_FailsClosed ==
  conflicts.called
    => \A i \in 1..Len(sessions) :
         sessions[i].session_id \in conflicts.ids => ValidTimes(sessions[i])

=============================================================================
